---- MODULE Spec2Model ----
(***************************************************************************)
(* GhostFAT: a virtual FAT16 volume synthesised block by block from a      *)
(* fixed table of files (src/src/lib.rs, file.rs, config.rs, boot.rs,      *)
(* dir.rs).                                                                *)
(*                                                                         *)
(* Byte arrays (blocks, file contents, names) are sequences of 0..255.     *)
(* The code indexes from 0, sequences from 1: byte i of the code is        *)
(* element i + 1 here; Get and the St* operators take the code's index.    *)
(* An operation that can abort (slice or index out of range, unwrap of an  *)
(* Err, assert_eq!, arithmetic overflow under overflow checks) returns a   *)
(* record whose ok/res field says so.                                      *)
(*                                                                         *)
(* Files with FileContent::Dynamic delegate to an object outside the       *)
(* repository; the model covers the two buffer-backed variants.            *)
(***************************************************************************)
EXTENDS Integers, Sequences, FiniteSets, TLC

VARIABLES
    fs,        \* the GhostFat value: config, fat_boot_block, fat_files
    checks,    \* whether the build checks arithmetic overflow (debug) or wraps (release)
    files0,    \* the file table as it was handed to GhostFat::new
    last,      \* the last call on the block device and what it returned
    wlog       \* per cluster LBA of a Write-backed file: the last payload written there

vars == <<fs, checks, files0, last, wlog>>

----------------------------------------------------------------------------
(* Bounds of the model *)

\* longest file table handed to GhostFat::new
MaxFiles == 2

\* how many consecutive sectors of each region the host addresses
ProbeWidth == 2

----------------------------------------------------------------------------
(* Bytes and integers *)

Min(a, b) == IF a < b THEN a ELSE b

U8(v) == v % 256

U16(v) == v % 65536

\* a u32 or usize value: the model's integers stay below 2^31, where the
\* conversions between u32 and usize change nothing
U32(v) == v

Fill(n, v) == [i \in 1..n |-> v]

Get(b, i) == b[i + 1]

\* bytes [from, to) of b, in the code's indices
Slice(b, from, to) == SubSeq(b, from + 1, to)

LE16(v) == <<v % 256, (v \div 256) % 256>>

LE32(v) == <<v % 256, (v \div 256) % 256, (v \div 65536) % 256, (v \div 16777216) % 256>>

RdLE16(b, off) == Get(b, off) + 256 * Get(b, off + 1)

RdLE32(b, off) ==
    Get(b, off) + 256 * Get(b, off + 1) + 65536 * Get(b, off + 2) + 16777216 * Get(b, off + 3)

\* b with src copied to [off, off + Len(src)); the caller has checked the range
Splice(b, off, src) ==
    [i \in 1..Len(b) |-> IF i > off /\ i <= off + Len(src) THEN src[i - off] ELSE b[i]]

\* block[i] = v on a block that may already have aborted
StSet(st, i, v) ==
    IF ~st.ok THEN st
    ELSE IF i >= Len(st.b) THEN [ok |-> FALSE, b |-> st.b]
    ELSE [ok |-> TRUE, b |-> [st.b EXCEPT ![i + 1] = v]]

----------------------------------------------------------------------------
(* Text constants as bytes *)

ASCII_SPACE == 32

ASCII_DOT == 46

\* "UF2 UF2"
DefaultOemInfo == <<85, 70, 50, 32, 85, 70, 50>>

\* "GHOSTFAT"
DefaultVolumeLabel == <<71, 72, 79, 83, 84, 70, 65, 84>>

\* "FAT16"
DefaultFilesystemIdentifier == <<70, 65, 84, 49, 54>>

----------------------------------------------------------------------------
(* config.rs *)

\* Config with the strings of Config::default()
MkConfig(bs, nb, rs, rds) ==
    [block_size |-> bs, num_blocks |-> nb, reserved_sectors |-> rs,
     root_dir_sectors |-> rds, oem_info |-> DefaultOemInfo,
     volume_label |-> DefaultVolumeLabel,
     filesystem_identifier |-> DefaultFilesystemIdentifier]

sector_size(c) == U32(c.block_size)

sectors_per_fat(c) == (c.num_blocks * 2 + U32(c.block_size) - 1) \div U32(c.block_size)

start_fat0(c) == c.reserved_sectors

start_fat1(c) == start_fat0(c) + sectors_per_fat(c)

start_rootdir(c) == start_fat1(c) + sectors_per_fat(c)

start_clusters(c) == start_rootdir(c) + c.root_dir_sectors

\* a u32 that may lie above the model's integers, as its two 16-bit halves
Halves(hi, lo) == [hi |-> hi, lo |-> lo]

\* lba <= m for an lba below 2^31 and a u32 m given by its halves
LbaLe(lba, m) ==
    \/ lba \div 65536 < m.hi
    \/ lba \div 65536 = m.hi /\ lba % 65536 <= m.lo

\* GhostFat::max_lba: num_blocks - 1 as a u32, in halves. For num_blocks = 0
\* the subtraction wraps to 0xFFFFFFFF; a build that checks overflow never
\* gets there, FatBootBlock::new having aborted GhostFat::new before.
max_lba(c) ==
    IF c.num_blocks = 0 THEN Halves(65535, 65535)
    ELSE Halves((c.num_blocks - 1) \div 65536, (c.num_blocks - 1) % 65536)

----------------------------------------------------------------------------
(* boot.rs *)

\* a space-filled field of cap bytes overwritten with up to cap - 1 bytes of s
PadField(s, cap) ==
    LET len == Min(cap - 1, Len(s))
    IN  [i \in 1..cap |-> IF i <= len THEN s[i] ELSE 32]

\* FatBootBlock::new; chk = the build checks arithmetic overflow
FatBootBlock_new(c, chk) ==
    LET rde_mul == U16(c.root_dir_sectors) * 512
        ts      == U16(c.num_blocks) - 2
    IN  [ok  |-> ~(chk /\ (rde_mul > 65535 \/ ts < 0)),
         val |-> [jump_instruction       |-> <<235, 60, 144>>,
                  oem_info               |-> PadField(c.oem_info, 8),
                  bytes_per_sector       |-> U16(c.block_size),
                  sectors_per_cluster    |-> 1,
                  reserved_sectors       |-> U16(c.reserved_sectors),
                  fat_copies             |-> 2,
                  root_directory_entries |-> U16(rde_mul) \div 32,
                  total_sectors16        |-> U16(ts + 65536),
                  media_descriptor       |-> 248,
                  sectors_per_fat        |-> U16(sectors_per_fat(c)),
                  sectors_per_track      |-> 1,
                  heads                  |-> 1,
                  hidden_sectors         |-> 0,
                  total_sectors32        |-> 0,
                  physical_drive_num     |-> 0,
                  reserved               |-> 0,
                  extended_boot_sig      |-> 41,
                  volume_serial_number   |-> 4325442,
                  volume_label           |-> PadField(c.volume_label, 11),
                  filesystem_identifier  |-> PadField(c.filesystem_identifier, 8)]]

\* FatBootBlock::BYTES
FatBootBlock_BYTES == 62

\* the packed layout of FatBootBlock, little endian
FatBootBlock_pack(bb) ==
    bb.jump_instruction \o bb.oem_info \o LE16(bb.bytes_per_sector)
    \o <<bb.sectors_per_cluster>> \o LE16(bb.reserved_sectors) \o <<bb.fat_copies>>
    \o LE16(bb.root_directory_entries) \o LE16(bb.total_sectors16)
    \o <<bb.media_descriptor>> \o LE16(bb.sectors_per_fat) \o LE16(bb.sectors_per_track)
    \o LE16(bb.heads) \o LE32(bb.hidden_sectors) \o LE32(bb.total_sectors32)
    \o <<bb.physical_drive_num, bb.reserved, bb.extended_boot_sig>>
    \o LE32(bb.volume_serial_number) \o bb.volume_label \o bb.filesystem_identifier

----------------------------------------------------------------------------
(* dir.rs *)

\* DirectoryEntry::BYTES
DirectoryEntry_BYTES == 32

\* DirectoryEntry::default() with the fields the code assigns
MkDirectoryEntry(name, attrs, start_cluster, size) ==
    [name |-> name, attrs |-> attrs, reserved |-> 0, create_time_fine |-> 0,
     create_time |-> 0, create_date |-> 0, last_access_date |-> 0,
     high_start_cluster |-> 0, update_time |-> 0, update_date |-> 0,
     start_cluster |-> start_cluster, size |-> size]

\* the packed layout of DirectoryEntry, little endian
DirectoryEntry_pack(d) ==
    d.name \o <<d.attrs, d.reserved, d.create_time_fine>> \o LE16(d.create_time)
    \o LE16(d.create_date) \o LE16(d.last_access_date) \o LE16(d.high_start_cluster)
    \o LE16(d.update_time) \o LE16(d.update_date) \o LE16(d.start_cluster) \o LE32(d.size)

----------------------------------------------------------------------------
(* file.rs *)

\* Attrs::READ_ONLY
READ_ONLY == 1

\* position of the first '.' of s at or after from, or 0
RECURSIVE FindDot(_, _)
FindDot(s, from) ==
    IF from > Len(s) THEN 0
    ELSE IF s[from] = ASCII_DOT THEN from
    ELSE FindDot(s, from + 1)

\* File::short_name: the first two components of name.split(".")
short_name(name) ==
    LET d1     == FindDot(name, 1)
        prefix == SubSeq(name, 1, d1 - 1)
        d2     == FindDot(name, d1 + 1)
        ext    == IF d2 = 0 THEN SubSeq(name, d1 + 1, Len(name))
                  ELSE SubSeq(name, d1 + 1, d2 - 1)
        bad    == [ok |-> FALSE, val |-> <<>>]
    IN  IF d1 = 0 THEN bad
        ELSE IF Len(prefix) + Len(ext) > 11 THEN bad
        ELSE [ok  |-> TRUE,
              val |-> [i \in 1..11 |->
                        IF i > 11 - Len(ext) THEN ext[i - (11 - Len(ext))]
                        ELSE IF i <= Len(prefix) THEN prefix[i]
                        ELSE ASCII_SPACE]]

\* File::new: the file, or Err(InvalidName)
File_new(name, kind, data) ==
    [ok  |-> short_name(name).ok,
     val |-> [name |-> name, kind |-> kind, data |-> data]]

\* File::new_ro: no check of the name
File_new_ro(name, data) == [name |-> name, kind |-> "Read", data |-> data]

\* File::len
len(f) == Len(f.data)

\* the block count every region of read_block and write_block computes
block_count(f, bs) ==
    IF len(f) % bs # 0 THEN len(f) \div bs + 1 ELSE len(f) \div bs

\* File::attrs
attrs(f) == IF f.kind = "Read" THEN READ_ONLY ELSE 0

\* slice.chunks(bs).nth(index): the range [from, to) of the chunk, none if from = to
ChunkRange(n, bs, index) ==
    IF index * bs < n THEN [from |-> index * bs, to |-> Min(n, (index + 1) * bs)]
    ELSE [from |-> 0, to |-> 0]

\* File::chunk had it taken the first chunk whatever the index
chunk_first(f, bs, index, buff) ==
    LET r == ChunkRange(len(f), bs, 0)
        n == Min(Len(buff), r.to - r.from)
    IN  IF r.to > r.from
        THEN [n |-> n, buff |-> Splice(buff, 0, Slice(f.data, r.from, r.from + n))]
        ELSE [n |-> 0, buff |-> buff]

\* File::chunk: the buffer after the copy and the length copied
chunk(f, bs, index, buff) ==
    LET r == ChunkRange(len(f), bs, index)
        n == Min(Len(buff), r.to - r.from)
    IN  IF r.to > r.from
        THEN [n |-> n, buff |-> Splice(buff, 0, Slice(f.data, r.from, r.from + n))]
        ELSE [n |-> 0, buff |-> buff]

\* File::chunk_mut had it written to the first chunk whatever the index
chunk_mut_first(f, bs, index, data) ==
    LET r == ChunkRange(len(f), bs, 0)
        n == Min(r.to - r.from, Len(data))
    IN  IF f.kind = "Read" THEN [n |-> 0, f |-> f]
        ELSE IF r.to > r.from
        THEN [n |-> n, f |-> [f EXCEPT !.data = Splice(f.data, r.from, SubSeq(data, 1, n))]]
        ELSE [n |-> 0, f |-> f]

\* File::chunk_mut had it stored the whole payload at the chunk, growing a short last chunk
chunk_mut_grow(f, bs, index, data) ==
    LET r == ChunkRange(len(f), bs, index)
    IN  IF f.kind = "Read" THEN [n |-> 0, f |-> f]
        ELSE IF r.to > r.from
        THEN [n |-> Len(data), f |-> [f EXCEPT !.data = SubSeq(f.data, 1, r.from) \o data]]
        ELSE [n |-> 0, f |-> f]

\* File::chunk_mut had it written to Read-backed files too
chunk_mut_any(f, bs, index, data) ==
    LET r == ChunkRange(len(f), bs, index)
        n == Min(r.to - r.from, Len(data))
    IN  IF r.to > r.from
        THEN [n |-> n, f |-> [f EXCEPT !.data = Splice(f.data, r.from, SubSeq(data, 1, n))]]
        ELSE [n |-> 0, f |-> f]

\* File::chunk_mut: the file after the copy and the length copied
chunk_mut(f, bs, index, data) ==
    LET r == ChunkRange(len(f), bs, index)
        n == Min(r.to - r.from, Len(data))
    IN  IF f.kind = "Read" THEN [n |-> 0, f |-> f]
        ELSE IF r.to > r.from
        THEN [n |-> n, f |-> [f EXCEPT !.data = Splice(f.data, r.from, SubSeq(data, 1, n))]]
        ELSE [n |-> 0, f |-> f]

----------------------------------------------------------------------------
(* lib.rs: GhostFat::new and read_block *)

\* GhostFat::new
GhostFat_new(files, config, chk) ==
    LET bb == FatBootBlock_new(config, chk)
    IN  [ok  |-> bb.ok,
         val |-> [config |-> config, fat_boot_block |-> bb.val, fat_files |-> files]]

Panic == [res |-> "Panic", block |-> <<>>]

Done(st) == IF st.ok THEN [res |-> "Ok", block |-> st.b] ELSE Panic

\* lba == 0: the packed boot block and the signature at 510, 511
ReadBoot(g, cleared) ==
    IF Len(cleared) < FatBootBlock_BYTES THEN Panic
    ELSE LET packed == Splice(cleared, 0, FatBootBlock_pack(g.fat_boot_block))
             st     == StSet(StSet([ok |-> TRUE, b |-> packed], 510, 85), 511, 170)
         IN  Done(st)

\* the section index of a FAT read at lba >= start_fat0 (below start_fat0 the
\* subtraction aborts or wraps, see ReadFat; the index is not used afterwards)
FatSectionIndex(c, lba) ==
    LET s == lba - start_fat0(c)
    IN  IF s >= sectors_per_fat(c) THEN s - sectors_per_fat(c) ELSE s

\* for i in i..block_count: the two bytes of the FAT entry of block i of a file
RECURSIVE FatFileEntries(_, _, _, _)
FatFileEntries(st, index, bc, i) ==
    IF i >= bc \/ ~st.ok THEN st
    ELSE LET j == i * 2
             st1 == IF i = bc - 1
                    THEN StSet(StSet(st, index * 2 + j, 255), index * 2 + j + 1, 255)
                    ELSE StSet(StSet(st, index * 2 + j, U8(index + i + 1)),
                               index * 2 + j + 1, U8((index + i + 1) \div 256))
         IN  FatFileEntries(st1, index, bc, i + 1)

\* for f in fat_files, from file fi on: the entries of each file; index advances
RECURSIVE FatFiles(_, _, _, _, _)
FatFiles(st, files, bs, fi, index) ==
    IF fi > Len(files) \/ ~st.ok THEN [st |-> st, index |-> index]
    ELSE LET bc == block_count(files[fi], bs)
         IN  FatFiles(FatFileEntries(st, index, bc, 0), files, bs, fi + 1, index + bc)

\* the four trailer bytes at index * 2
FatTrailer(st, index) ==
    StSet(StSet(StSet(StSet(st, index * 2, 255), index * 2 + 1, 255),
                index * 2 + 2, 255), index * 2 + 3, 255)

\* for b in &mut block[index*2..]: 0xFE
FatLock(st, index) ==
    IF ~st.ok \/ index * 2 > Len(st.b) THEN [ok |-> FALSE, b |-> st.b]
    ELSE [ok |-> TRUE, b |-> [i \in 1..Len(st.b) |-> IF i > index * 2 THEN 254 ELSE st.b[i]]]

\* read_block had it synthesised the first FAT only and left the second one zero
ReadFat_fat0only(g, lba, cleared, chk) ==
    IF chk /\ lba < start_fat0(g.config) THEN Panic
    ELSE IF lba >= start_fat1(g.config) THEN [res |-> "Ok", block |-> cleared]
    ELSE LET st0 == StSet([ok |-> TRUE, b |-> cleared], 0, 240)
             w   == FatFiles(st0, g.fat_files, g.config.block_size, 1, 2)
             st1 == FatTrailer(w.st, w.index)
         IN  Done(FatLock(st1, w.index + 4))

\* 0 < lba < start_rootdir: a FAT sector
ReadFat(g, lba, cleared, chk) ==
    IF chk /\ lba < start_fat0(g.config) THEN Panic
    ELSE LET st0 == StSet([ok |-> TRUE, b |-> cleared], 0, 240)
             w   == FatFiles(st0, g.fat_files, g.config.block_size, 1, 2)
             st1 == FatTrailer(w.st, w.index)
         IN  Done(FatLock(st1, w.index + 4))

\* for (i, info) in fat_files.iter().enumerate(), from file i on (i counts from 0)
RECURSIVE RootDirFiles(_, _, _, _, _)
RootDirFiles(st, files, bs, i, cluster_index) ==
    IF i >= Len(files) \/ ~st.ok THEN st
    ELSE LET info  == files[i + 1]
             sn    == short_name(info.name)
             start == (i + 1) * DirectoryEntry_BYTES
             dir   == MkDirectoryEntry(sn.val, attrs(info), U16(cluster_index), U32(len(info)))
         IN  IF ~sn.ok \/ start + DirectoryEntry_BYTES > Len(st.b)
             THEN [ok |-> FALSE, b |-> st.b]
             ELSE RootDirFiles([ok |-> TRUE, b |-> Splice(st.b, start, DirectoryEntry_pack(dir))],
                               files, bs, i + 1, cluster_index + block_count(info, bs))

\* start_rootdir <= lba < start_clusters: a root directory sector
ReadRootDir(g, lba, cleared) ==
    LET section_index == lba - start_rootdir(g.config)
        label == MkDirectoryEntry(g.fat_boot_block.volume_label, 40, 0, 0)
    IN  IF section_index # 0 THEN [res |-> "Ok", block |-> cleared]
        ELSE IF DirectoryEntry_BYTES > Len(cleared) THEN Panic
        ELSE Done(RootDirFiles([ok |-> TRUE, b |-> Splice(cleared, 0, DirectoryEntry_pack(label))],
                               g.fat_files, g.config.block_size, 0, 2))

\* the walk over the files for section_index, from file fi on: the owner and its chunk
RECURSIVE find_file(_, _, _, _, _)
find_file(files, bs, section_index, fi, block_index) ==
    IF fi > Len(files) THEN [found |-> FALSE, file |-> 0, offset |-> 0]
    ELSE LET bc == block_count(files[fi], bs)
         IN  IF section_index < bc + block_index
             THEN [found |-> TRUE, file |-> fi, offset |-> section_index - block_index]
             ELSE find_file(files, bs, section_index, fi + 1, block_index + bc)

\* lba >= start_clusters: a data cluster
ReadCluster(g, lba, cleared) ==
    LET section_index == lba - start_clusters(g.config)
        o == find_file(g.fat_files, g.config.block_size, section_index, 1, 0)
    IN  IF o.found
        THEN [res |-> "Ok",
              block |-> chunk(g.fat_files[o.file], g.config.block_size, o.offset, cleared).buff]
        ELSE [res |-> "Ok", block |-> cleared]

\* read_block had it not cleared the caller's block before filling it
read_block_noclear(g, lba, block, chk) ==
    IF Len(block) # g.config.block_size THEN Panic
    ELSE IF lba = 0 THEN ReadBoot(g, block)
    ELSE IF lba < start_rootdir(g.config) THEN ReadFat(g, lba, block, chk)
    ELSE IF lba < start_clusters(g.config) THEN ReadRootDir(g, lba, block)
    ELSE ReadCluster(g, lba, block)

\* GhostFat::read_block on buffer block; chk = the build checks arithmetic overflow
read_block(g, lba, block, chk) ==
    IF Len(block) # g.config.block_size THEN Panic
    ELSE LET cleared == Fill(Len(block), 0)
         IN  IF lba = 0 THEN ReadBoot(g, cleared)
             ELSE IF lba < start_rootdir(g.config) THEN ReadFat(g, lba, cleared, chk)
             ELSE IF lba < start_clusters(g.config) THEN ReadRootDir(g, lba, cleared)
             ELSE ReadCluster(g, lba, cleared)

----------------------------------------------------------------------------
(* lib.rs: write_block *)

\* lba >= start_clusters: the payload goes to the owning file's chunk
WriteCluster(g, lba, data) ==
    LET section_index == lba - start_clusters(g.config)
        o == find_file(g.fat_files, g.config.block_size, section_index, 1, 0)
    IN  IF o.found
        THEN [res |-> "Ok",
              files |-> [g.fat_files EXCEPT ![o.file] =
                            chunk_mut(g.fat_files[o.file], g.config.block_size, o.offset, data).f]]
        ELSE [res |-> "Ok", files |-> g.fat_files]

\* write_block had it taken the root directory sectors for data clusters
write_block_rootdir(g, lba, data) ==
    IF lba = 0 THEN [res |-> "Ok", files |-> g.fat_files]
    ELSE IF lba < start_rootdir(g.config) THEN [res |-> "Ok", files |-> g.fat_files]
    ELSE WriteCluster(g, lba + g.config.root_dir_sectors, data)

\* GhostFat::write_block: the result and the file table afterwards
write_block(g, lba, data) ==
    IF lba = 0 THEN [res |-> "Ok", files |-> g.fat_files]
    ELSE IF lba < start_rootdir(g.config) THEN [res |-> "Ok", files |-> g.fat_files]
    ELSE IF lba < start_clusters(g.config) THEN [res |-> "Ok", files |-> g.fat_files]
    ELSE WriteCluster(g, lba, data)

----------------------------------------------------------------------------
(* The volumes and file tables of the model *)

\* block size 64, two reserved sectors: one directory slot, 32 FAT entries per sector
Config64 == MkConfig(64, 40, 2, 2)

\* block size 128: three directory slots, 64 FAT entries per sector
Config128 == MkConfig(128, 100, 1, 1)

\* Config::default() at the default block size
Config512 == MkConfig(512, 8000, 1, 4)

\* Config::default() at block size 8, the volume of the FAT unit-test vectors
Config8 == MkConfig(8, 8000, 1, 4)

\* block size above the 512 of the boot block's hard-coded figures
Config1024 == MkConfig(1024, 64, 1, 1)

\* the default volume with more blocks than a u16 counts
ConfigBig == MkConfig(512, 70000, 1, 4)

\* the default volume declared with no blocks: num_blocks - 1 and num_blocks - 2
\* wrap where overflow is unchecked, and GhostFat::new aborts where it is checked
Config0 == MkConfig(512, 0, 1, 4)

Configs == {Config64, Config128, Config512, Config8, Config1024, ConfigBig, Config0}

\* "TESTi.TXT"
TestName(i) == <<84, 69, 83, 84, 48 + i, 46, 84, 88, 84>>

\* "README": no '.', so short_name fails; only File::new_ro accepts it
BadName == <<82, 69, 65, 68, 77, 69>>

\* initial contents of file i: every byte depends on its offset and on the file
Pattern(i, n) == [k \in 1..n |-> (59 * i + 7 * k + 13 * (k \div 8)) % 256]

\* the shapes a file of the table can have: content kind, length, constructor.
\* Block size 128 takes the general mix (an empty file, files of two clusters
\* with a partial last one); block size 64 a file that fills the first FAT
\* sector up to its last entries, a file of exactly one block and a file whose
\* name File::new would refuse; block size 512 and 8 the files of the tests;
\* the volumes that vary the boot block one small read-only file.
Shapes(c) ==
    LET bs == c.block_size
        S(kind, n, ctor) == [kind |-> kind, len |-> n, ctor |-> ctor]
    IN  IF bs = 1024 \/ c.num_blocks > 65535 \/ c.num_blocks = 0 THEN {S("Read", 9, "new")}
        ELSE IF bs = 128 THEN {S("Read", 0, "new"), S("Read", bs + 9, "new"), S("Write", bs + 9, "new")}
        ELSE IF bs = 64 THEN {S("Read", (bs \div 2 - 5) * bs, "new"), S("Write", bs, "new"),
                              S("Read", 9, "new_ro")}
        ELSE IF bs = 512 THEN {S("Read", 9, "new"), S("Write", 8, "new")}
        ELSE {S("Read", 64, "new")}

\* file i of a table, built by the constructor its shape names
MkFile(i, sh) ==
    IF sh.ctor = "new" THEN File_new(TestName(i), sh.kind, Pattern(i, sh.len))
    ELSE [ok |-> TRUE, val |-> File_new_ro(BadName, Pattern(i, sh.len))]

FileTables(c) ==
    LET shapes == UNION {[1..n -> Shapes(c)] : n \in 0..MaxFiles}
    IN  {[i \in 1..Len(t) |-> MkFile(i, t[i]).val] :
            t \in {u \in shapes : \A i \in 1..Len(u) : MkFile(i, u[i]).ok}}

\* the LBAs the host addresses: the first sectors of every region, up to max_lba
Probes(c) ==
    LET w(n) == 0..(Min(n, ProbeWidth) - 1)
        all  == {0}
                \cup {l \in 1..(start_fat0(c) - 1) : l < ProbeWidth}
                \cup {start_fat0(c) + s : s \in w(sectors_per_fat(c))}
                \cup {start_fat1(c) + s : s \in w(sectors_per_fat(c))}
                \cup {start_rootdir(c) + s : s \in w(c.root_dir_sectors)}
                \cup {start_clusters(c) + s : s \in 0..(2 * ProbeWidth)}
    IN  {l \in all : LbaLe(l, max_lba(c))}

\* what the caller's buffer of BLOCK_BYTES bytes holds before a read: zeros or garbage
Buffers(bs) == {Fill(bs, 0), Fill(bs, 170)}

\* the builds told apart: overflow checks change a result only where the
\* arithmetic can overflow, which in these volumes is lba - start_fat0 for an
\* lba in the reserved sectors after the boot block, and num_blocks - 1 and
\* num_blocks - 2 for a volume of no blocks
Builds(c) == IF c.reserved_sectors > 1 \/ c.num_blocks = 0 THEN BOOLEAN ELSE {TRUE}

\* the payloads of a write: one block each
Payloads(bs) == {[k \in 1..bs |-> (seed + 3 * k) % 256] : seed \in {5}}

----------------------------------------------------------------------------
(* The layout the specification states, written independently of the walks
   of read_block and write_block; the properties below compare the two *)

\* num_blocks(f) = ceil(len / block_size)
NumBlocks(f, bs) == (Len(f.data) + bs - 1) \div bs

\* the sum of num_blocks of the files declared before file i
RECURSIVE BlocksBefore(_, _, _)
BlocksBefore(files, bs, i) ==
    IF i <= 1 THEN 0
    ELSE BlocksBefore(files, bs, i - 1) + NumBlocks(files[i - 1], bs)

\* cluster_of(f_i): files are laid out in declaration order from cluster 2
FirstCluster(files, bs, i) == 2 + BlocksBefore(files, bs, i)

\* the clusters allocated to files
TotalClusters(files, bs) == BlocksBefore(files, bs, Len(files) + 1)

\* the LBA of cluster number cl
ClusterLba(c, cl) == start_clusters(c) + (cl - 2)

\* the chunks <<i, k>> of the file table that live at lba
ChunksAt(g, lba) ==
    {ik \in {<<i, k>> : i \in 1..Len(g.fat_files), k \in 0..(lba - start_clusters(g.config))} :
        /\ ik[2] < NumBlocks(g.fat_files[ik[1]], g.config.block_size)
        /\ lba = ClusterLba(g.config,
                            FirstCluster(g.fat_files, g.config.block_size, ik[1]) + ik[2])}

\* the k-th block_size slice of data, padded with zeros to block_size
PaddedSlice(data, bs, k) ==
    [j \in 1..bs |-> IF k * bs + j <= Len(data) THEN data[k * bs + j] ELSE 0]

----------------------------------------------------------------------------
(* The state machine *)

NoCall == [op |-> "none", lba |-> 0, res |-> "Ok", block |-> <<>>]

Init ==
    \E c \in Configs :
        \E chk \in Builds(c), files \in FileTables(c) :
            /\ GhostFat_new(files, c, chk).ok
            /\ fs = GhostFat_new(files, c, chk).val
            /\ checks = chk
            /\ files0 = files
            /\ last = NoCall
            /\ wlog = <<>>

\* the host reads one block into a buffer of its own
ReadBlock ==
    \E lba \in Probes(fs.config), buf \in Buffers(fs.config.block_size) :
        LET r == read_block(fs, lba, buf, checks)
        IN  /\ last' = [op |-> "read", lba |-> lba, res |-> r.res, block |-> r.block]
            /\ UNCHANGED <<fs, checks, files0, wlog>>

\* the host writes one block
WriteBlock ==
    \E lba \in Probes(fs.config), data \in Payloads(fs.config.block_size) :
        LET r == write_block(fs, lba, data)
        IN  /\ fs' = [fs EXCEPT !.fat_files = r.files]
            /\ last' = [op |-> "write", lba |-> lba, res |-> r.res, block |-> <<>>]
            /\ wlog' = IF \E ik \in ChunksAt(fs, lba) : fs.fat_files[ik[1]].kind = "Write"
                       THEN (lba :> data) @@ wlog
                       ELSE wlog
            /\ UNCHANGED <<checks, files0>>

Next == ReadBlock \/ WriteBlock

Spec == Init /\ [][Next]_vars

----------------------------------------------------------------------------
(* File names: File::short_name applied to display names of every shape *)

\* longest prefix and longest extension of the names tried
MaxPrefix == 12

MaxExt == 4

\* n distinct letters counted up from base
Letters(n, base) == [i \in 1..n |-> base + i]

\* what follows the prefix: nothing, a lone dot, an extension, a third component
Tails ==
    {<<>>, <<ASCII_DOT>>}
    \cup {<<ASCII_DOT>> \o Letters(e, 96) : e \in 1..MaxExt}
    \cup {<<ASCII_DOT>> \o Letters(e, 96) \o <<ASCII_DOT, 90>> : e \in 0..1}

Names == {Letters(p, 64) \o t : p \in 0..MaxPrefix, t \in Tails}

\* a file of some name, taken without a check by File::new_ro
NameInit ==
    \E n \in Names :
        /\ files0 = <<File_new_ro(n, <<>>)>>
        /\ fs = GhostFat_new(files0, Config512, TRUE).val
        /\ checks = TRUE
        /\ last = NoCall
        /\ wlog = <<>>

\* File::short_name on the file: the 11 bytes, or Err(InvalidName)
ShortName ==
    /\ last.op = "none"
    /\ LET sn == short_name(fs.fat_files[1].name)
       IN  last' = [op |-> "short_name", lba |-> 0,
                    res |-> IF sn.ok THEN "Ok" ELSE "InvalidName", block |-> sn.val]
    /\ UNCHANGED <<fs, checks, files0, wlog>>

NameNext == ShortName

SpecNames == NameInit /\ [][NameNext]_vars

----------------------------------------------------------------------------
(* Properties *)

\* every file of the table has a name File::new accepts
NamesValid(files) == \A i \in 1..Len(files) : short_name(files[i].name).ok

NotRecovered == [ok |-> FALSE, bytes |-> <<>>]

\* the clusters of a chain from cluster cl on, read and concatenated until the
\* FAT entry (taken from the first FAT sector, fat) is 0xFFFF
RECURSIVE FollowChain(_, _, _, _, _)
FollowChain(g, chk, fat, cl, fuel) ==
    IF fuel = 0 \/ cl < 2 \/ 2 * cl + 1 >= Len(fat) THEN NotRecovered
    ELSE LET d    == read_block(g, ClusterLba(g.config, cl), Fill(g.config.block_size, 170), chk)
             next == RdLE16(fat, 2 * cl)
         IN  IF d.res # "Ok" THEN NotRecovered
             ELSE IF next = 65535 THEN [ok |-> TRUE, bytes |-> d.block]
             ELSE LET rest == FollowChain(g, chk, fat, next, fuel - 1)
                  IN  [ok |-> rest.ok, bytes |-> d.block \o rest.bytes]

\* what a FAT16 driver recovers for the i-th file entry of root directory sector 0
RecoverFile(g, chk, i) ==
    LET bs  == g.config.block_size
        dir == read_block(g, start_rootdir(g.config), Fill(bs, 170), chk)
        fat == read_block(g, start_fat0(g.config), Fill(bs, 170), chk)
        off == i * DirectoryEntry_BYTES
    IN  IF dir.res # "Ok" \/ fat.res # "Ok" THEN NotRecovered
        ELSE LET walk == FollowChain(g, chk, fat.block, RdLE16(dir.block, off + 26), bs \div 2)
                 size == RdLE32(dir.block, off + 28)
             IN  IF ~walk.ok \/ size > Len(walk.bytes) THEN NotRecovered
                 ELSE [ok |-> TRUE, bytes |-> SubSeq(walk.bytes, 1, size)]

\* C1 - End-to-end file recovery: for a table of at most block_size/32 - 1
\* files (with names File::new accepts) whose chains lie in the first FAT
\* sector, 2 + total clusters <= block_size/2, the FAT16 traversal of every
\* file entry succeeds on every read and recovers exactly the file's bytes.
C1_EndToEnd ==
    LET bs == fs.config.block_size
    IN  ( /\ Len(fs.fat_files) <= bs \div DirectoryEntry_BYTES - 1
          /\ 2 + TotalClusters(fs.fat_files, bs) <= bs \div 2
          /\ NamesValid(fs.fat_files) )
        => \A i \in 1..Len(fs.fat_files) :
              RecoverFile(fs, checks, i) = [ok |-> TRUE, bytes |-> fs.fat_files[i].data]

\* the last call was a read of chunk k of file i, and it returned a block
ReadOfChunk(i, k) ==
    /\ last.op = "read"
    /\ <<i, k>> \in ChunksAt(fs, last.lba)

\* C2 - Data-region read correctness: a read of the k-th cluster of file i,
\* files laid out in declaration order from cluster 2, succeeds and returns
\* the k-th block_size slice of the file's bytes followed by zeros up to
\* block_size, whatever the caller's buffer held.
C2_DataRead ==
    \A i \in 1..Len(fs.fat_files) :
        \A k \in 0..(NumBlocks(fs.fat_files[i], fs.config.block_size) - 1) :
            ReadOfChunk(i, k) =>
                /\ last.res = "Ok"
                /\ last.block = PaddedSlice(fs.fat_files[i].data, fs.config.block_size, k)

\* a read returned the short last chunk of the second file, zero padded
C2_Witness ==
    \E k \in 1..(2 * ProbeWidth) :
        /\ Len(fs.fat_files) >= 2
        /\ ReadOfChunk(2, k)
        /\ Len(fs.fat_files[2].data) % fs.config.block_size # 0
        /\ k = NumBlocks(fs.fat_files[2], fs.config.block_size) - 1
        /\ last.block = PaddedSlice(fs.fat_files[2].data, fs.config.block_size, k)

\* C3 - Write/read round trip: once a block was written to the k-th cluster of
\* a Write-backed file, every later read of that LBA (other reads and writes
\* in between) returns the first m bytes of the last payload written there,
\* m = min(block_size, len - k * block_size), followed by zeros.
C3_RoundTrip ==
    (last.op = "read" /\ last.lba \in DOMAIN wlog) =>
        \A ik \in ChunksAt(fs, last.lba) :
            LET bs == fs.config.block_size
                m  == Min(bs, Len(fs.fat_files[ik[1]].data) - ik[2] * bs)
            IN  /\ last.res = "Ok"
                /\ last.block = [j \in 1..bs |-> IF j <= m THEN wlog[last.lba][j] ELSE 0]

\* a read returned what was written to the short second chunk of a Write-backed file
C3_Witness ==
    /\ last.op = "read"
    /\ last.lba \in DOMAIN wlog
    /\ \E ik \in ChunksAt(fs, last.lba) :
          /\ ik[2] >= 1
          /\ Len(fs.fat_files[ik[1]].data) - ik[2] * fs.config.block_size < fs.config.block_size
          /\ Get(last.block, 0) = Get(wlog[last.lba], 0)
          /\ Get(last.block, fs.config.block_size - 1) = 0

\* the last call was a write to a cluster of a Read-backed file
WriteToReadOnly ==
    /\ last.op = "write"
    /\ \E ik \in ChunksAt(fs, last.lba) : fs.fat_files[ik[1]].kind = "Read"

\* C4 - A write_block to a cluster owned by a Read-backed file returns the
\* error WriteError, not success.
C4_ReadOnlyWriteError == WriteToReadOnly => last.res = "WriteError"

\* C5 - Reads never fail: for every volume and file table GhostFat::new
\* accepts, read_block of any lba <= max_lba into a buffer of BLOCK_BYTES
\* bytes returns success.
C5_ReadsNeverFail ==
    (last.op = "read" /\ LbaLe(last.lba, max_lba(fs.config))) => last.res = "Ok"

\* C6 - Writes to ignored regions are no-ops: a write_block to the boot block,
\* the reserved and FAT sectors or the root directory returns success and
\* leaves the file system, every file's bytes included, as it was; read_block
\* is a function of that state, so every read returns what it returned before.
C6_IgnoredWrites ==
    [][(last'.op = "write" /\ last'.lba < start_clusters(fs.config))
        => (last'.res = "Ok" /\ fs' = fs)]_vars

\* a write to the root directory of a table with a Write-backed first file
\* returned success and the files are as constructed
C6_Witness ==
    /\ last.op = "write"
    /\ last.lba = start_rootdir(fs.config)
    /\ last.res = "Ok"
    /\ Len(fs.fat_files) >= 1
    /\ fs.fat_files[1].kind = "Write"
    /\ fs.fat_files = files0

\* C7 - Static file set: whatever was written, the number of files and each
\* file's name and length are those given to GhostFat::new, and a read of
\* the boot block, a FAT sector or a root directory sector returns what the
\* same read returns right after construction.
C7_StaticFileSet ==
    /\ Len(fs.fat_files) = Len(files0)
    /\ \A i \in 1..Len(files0) :
          /\ fs.fat_files[i].name = files0[i].name
          /\ Len(fs.fat_files[i].data) = Len(files0[i].data)
    /\ (last.op = "read" /\ last.lba < start_clusters(fs.config)) =>
          LET r0 == read_block([fs EXCEPT !.fat_files = files0], last.lba,
                               Fill(fs.config.block_size, 0), checks)
          IN  last.res = r0.res /\ last.block = r0.block

\* the root directory was read with success after a write had changed a file's bytes
C7_Witness ==
    /\ last.op = "read"
    /\ last.lba = start_rootdir(fs.config)
    /\ last.res = "Ok"
    /\ fs.fat_files # files0

\* the 32 bytes of the directory entry of file i as the specification states them
ExpectedDirEntry(g, i) ==
    short_name(g.fat_files[i].name).val
    \o <<IF g.fat_files[i].kind = "Read" THEN 1 ELSE 0>>
    \o Fill(14, 0)
    \o LE16(FirstCluster(g.fat_files, g.config.block_size, i))
    \o LE32(Len(g.fat_files[i].data))

\* root directory sector 0 as the specification states it
ExpectedRootDir(g) ==
    [j \in 1..g.config.block_size |->
        LET e == (j - 1) \div DirectoryEntry_BYTES
            o == (j - 1) % DirectoryEntry_BYTES
        IN  IF e = 0
            THEN (IF o < 11 THEN g.fat_boot_block.volume_label[o + 1]
                  ELSE IF o = 11 THEN 40 ELSE 0)
            ELSE IF e <= Len(g.fat_files) THEN ExpectedDirEntry(g, e)[o + 1]
            ELSE 0]

\* C8 - Root directory contents: a read of start_rootdir returns the volume
\* label entry (attrs 0x28) and, for each file in declaration order, the entry
\* at (i+1)*32 with its short name, attrs, size, zero timestamps and start
\* cluster 2 + the blocks of the files before it, zeros after the last entry;
\* the other root directory sectors are zero. Stated for sectors that can
\* hold an entry and for names File::new accepts.
C8_RootDir ==
    ( /\ last.op = "read"
      /\ last.lba >= start_rootdir(fs.config)
      /\ last.lba < start_clusters(fs.config)
      /\ fs.config.block_size >= DirectoryEntry_BYTES
      /\ NamesValid(fs.fat_files) )
    => /\ last.res = "Ok"
       /\ last.block = IF last.lba = start_rootdir(fs.config) THEN ExpectedRootDir(fs)
                       ELSE Fill(fs.config.block_size, 0)

\* C9 - FAT chain values: for each file of n >= 1 clusters from first cluster
\* c, the FAT entry of cluster c+k is c+k+1 for k < n-1 and 0xFFFF for
\* k = n-1. Stated for the chains that lie in the first FAT sector, read
\* from start_fat0.
C9_FatChain ==
    (last.op = "read" /\ last.lba = start_fat0(fs.config)) =>
        \A i \in 1..Len(fs.fat_files) :
            LET bs == fs.config.block_size
                n  == NumBlocks(fs.fat_files[i], bs)
                c  == FirstCluster(fs.fat_files, bs, i)
            IN  (n >= 1 /\ c + n <= bs \div 2) =>
                    /\ last.res = "Ok"
                    /\ \A k \in 0..(n - 1) :
                          RdLE16(last.block, 2 * (c + k)) = IF k < n - 1 THEN c + k + 1 ELSE 65535

\* the FAT value of an allocated cluster cl: the next cluster of its file, or 0xFFFF
ChainValue(files, bs, cl) ==
    LET i == CHOOSE i \in 1..Len(files) :
                 /\ FirstCluster(files, bs, i) <= cl
                 /\ cl < FirstCluster(files, bs, i) + NumBlocks(files[i], bs)
    IN  IF cl + 1 < FirstCluster(files, bs, i) + NumBlocks(files[i], bs) THEN cl + 1 ELSE 65535

\* C10 - FAT sector windowing: the entry at byte 2p of FAT sector s is the FAT
\* value of cluster s * (block_size/2) + p. Stated for the sectors s >= 1
\* whose window holds a cluster of a file, and for the entries of those
\* clusters (block size 8 and one 64-byte file: sector 1 = 05 00 06 00 07 00 08 00).
C10_FatWindow ==
    LET bs == fs.config.block_size
        s  == last.lba - start_fat0(fs.config)
        allocated(cl) == 2 <= cl /\ cl < 2 + TotalClusters(fs.fat_files, bs)
    IN  ( /\ last.op = "read"
          /\ 1 <= s /\ s < sectors_per_fat(fs.config)
          /\ \E p \in 0..(bs \div 2 - 1) : allocated(s * (bs \div 2) + p) )
        => /\ last.res = "Ok"
           /\ \A p \in 0..(bs \div 2 - 1) :
                 allocated(s * (bs \div 2) + p) =>
                    RdLE16(last.block, 2 * p) = ChainValue(fs.fat_files, bs, s * (bs \div 2) + p)

\* the last call was a read of sector s of the second FAT
ReadOfFat1(s) ==
    /\ last.op = "read"
    /\ s < sectors_per_fat(fs.config)
    /\ last.lba = start_fat1(fs.config) + s

\* C11 - Two-FAT equivalence: a read of sector s of the second FAT gives what
\* a read of sector s of the first FAT gives on the same file table: the same
\* outcome and, byte for byte, the same block.
C11_TwoFats ==
    \A s \in 0..(ProbeWidth - 1) :
        ReadOfFat1(s) =>
            LET r0 == read_block(fs, start_fat0(fs.config) + s,
                                 Fill(fs.config.block_size, 0), checks)
            IN  last.res = r0.res /\ last.block = r0.block

\* sector 0 of the second FAT was read with success on a table with a file
\* of several clusters, and the block holds a chain entry
C11_Witness ==
    /\ ReadOfFat1(0)
    /\ last.res = "Ok"
    /\ Len(fs.fat_files) >= 1
    /\ NumBlocks(fs.fat_files[1], fs.config.block_size) >= 2
    /\ RdLE16(last.block, 4) = 3

\* the last call was a read of the first FAT sector that returned a block
FatSector0Read ==
    /\ last.op = "read"
    /\ last.lba = start_fat0(fs.config)
    /\ last.res = "Ok"

\* C12 - Free clusters: in a FAT sector returned by read_block the 16-bit
\* entry of every cluster number greater than the last cluster allocated to
\* a file is 0x0000. Stated for the first FAT sector, whose entry p is the
\* entry of cluster p.
C12_FreeClusters ==
    FatSector0Read =>
        \A cl \in (2 + TotalClusters(fs.fat_files, fs.config.block_size))
                  ..(fs.config.block_size \div 2 - 1) :
            RdLE16(last.block, 2 * cl) = 0

\* C13 - Reserved FAT entries: the first FAT sector returned by
\* read_block(start_fat0) begins with F0 FF FF FF: the entry of cluster 0 is
\* 0xFFF0 and the entry of cluster 1 is 0xFFFF.
C13_ReservedEntries ==
    FatSector0Read =>
        /\ SubSeq(last.block, 1, 4) = <<240, 255, 255, 255>>
        /\ RdLE16(last.block, 0) = 65520
        /\ RdLE16(last.block, 2) = 65535

\* the last call was a read of the boot block
BootRead == last.op = "read" /\ last.lba = 0

\* C14 - Boot block shape: for every Config and block size read_block(0)
\* yields a block with 0x55, 0xAA at bytes 510 and 511, block_size as the
\* little-endian u16 at offset 11, ceil(num_blocks * 2 / block_size) as the
\* one at offset 22, and zeros after the 62 bytes of the BPB except at 510, 511.
C14_BootShape ==
    BootRead =>
        LET bs == fs.config.block_size
        IN  /\ last.res = "Ok"
            /\ Get(last.block, 510) = 85
            /\ Get(last.block, 511) = 170
            /\ RdLE16(last.block, 11) = bs
            /\ RdLE16(last.block, 22) = (fs.config.num_blocks * 2 + bs - 1) \div bs
            /\ \A j \in FatBootBlock_BYTES..(bs - 1) :
                  j \notin {510, 511} => Get(last.block, j) = 0

\* the positions of '.' in a name
Dots(n) == {i \in 1..Len(n) : n[i] = 46}

\* the first '.' of a name that has one
FirstDot(n) == CHOOSE d \in Dots(n) : \A e \in Dots(n) : d <= e

\* C15 - Short-name derivation: with the name split on its first '.',
\* short_name() returns InvalidName if there is no '.', if there is no
\* extension or if prefix_len + ext_len > 11; otherwise the 11 bytes hold the
\* prefix from byte 0, the extension up to byte 10 and spaces in between.
C15_ShortName ==
    last.op = "short_name" =>
        LET n == files0[1].name
        IN  IF Dots(n) = {} THEN last.res = "InvalidName"
            ELSE LET prefix == SubSeq(n, 1, FirstDot(n) - 1)
                     ext    == SubSeq(n, FirstDot(n) + 1, Len(n))
                 IN  IF Len(ext) = 0 \/ Len(prefix) + Len(ext) > 11
                     THEN last.res = "InvalidName"
                     ELSE /\ last.res = "Ok"
                          /\ last.block = [i \in 1..11 |->
                                IF i <= Len(prefix) THEN prefix[i]
                                ELSE IF i > 11 - Len(ext) THEN ext[i - (11 - Len(ext))]
                                ELSE 32]

\* C16 - Invalid names are rejected at File construction: every file of a
\* table given to GhostFat::new has a name short_name() accepts, and a read
\* of the root directory never fails on a name. Stated for tables whose
\* entries fit the sector, so that no other abort of the read plays a part.
C16_NamesChecked ==
    ( /\ last.op = "read"
      /\ last.lba = start_rootdir(fs.config)
      /\ Len(fs.fat_files) <= fs.config.block_size \div DirectoryEntry_BYTES - 1 )
    => /\ NamesValid(fs.fat_files)
       /\ last.res = "Ok"

\* no file of the table is Write-backed
NoWriteBacked == \A i \in 1..Len(fs.fat_files) : fs.fat_files[i].kind # "Write"

\* C17 - Read determinism and idempotence: for a table with no Write-backed
\* file every read of an LBA returns the one result that the table as
\* constructed and the LBA determine, whatever the caller's buffer held and
\* whatever was read or written before (so two reads of the same LBA return
\* identical bytes), and the files' bytes are those given at construction.
C17_ReadDeterminism ==
    NoWriteBacked =>
        /\ fs.fat_files = files0
        /\ last.op = "read" =>
              LET r0 == read_block([fs EXCEPT !.fat_files = files0], last.lba,
                                   Fill(fs.config.block_size, 0), checks)
              IN  last.res = r0.res /\ last.block = r0.block

\* the short last cluster of a Read-backed file was read with success on a
\* table with no Write-backed file
C17_Witness ==
    /\ NoWriteBacked
    /\ last.op = "read"
    /\ last.res = "Ok"
    /\ \E ik \in ChunksAt(fs, last.lba) :
          /\ ik[2] >= 1
          /\ (ik[2] + 1) * fs.config.block_size > Len(fs.fat_files[ik[1]].data)
    /\ last.block[fs.config.block_size] = 0

\* the last call was a read of the boot block that returned a block
BootBlockRead == BootRead /\ last.res = "Ok"

\* C18 - Boot block total sector count: total_sectors16 (offset 19) equals
\* num_blocks - 2 when that fits 16 bits; when it does not, total_sectors16
\* is 0 and total_sectors32 (offset 32) carries the sector count.
C18_TotalSectors ==
    BootBlockRead =>
        LET n == fs.config.num_blocks - 2
        IN  IF n < 65536
            THEN RdLE16(last.block, 19) = n
            ELSE RdLE16(last.block, 19) = 0 /\ RdLE32(last.block, 32) = n

\* C19 - Boot block root entry count: root_directory_entries (offset 17)
\* equals root_dir_sectors * block_size / 32, the number of 32-byte entries
\* in the sectors between start_rootdir and start_clusters.
C19_RootEntries ==
    BootBlockRead =>
        /\ RdLE16(last.block, 17) =
              (fs.config.root_dir_sectors * fs.config.block_size) \div DirectoryEntry_BYTES
        /\ RdLE16(last.block, 17) * DirectoryEntry_BYTES =
              (start_clusters(fs.config) - start_rootdir(fs.config)) * fs.config.block_size

\* byte j (from 1) of a file lies in its chunk k:
\* [k * block_size, min((k + 1) * block_size, len))
InChunk(f, bs, k, j) == k * bs < j /\ j <= Min((k + 1) * bs, Len(f.data))

\* C20 - Write frame: a write_block in the cluster region returns success,
\* changes no file's name, kind or length, and changes no byte outside the
\* chunk of the one Write-backed file that owns the LBA: nothing changes
\* when the owner is Read-backed or when no file owns the LBA.
C20_WriteFrame ==
    [][(last'.op = "write" /\ last'.lba >= start_clusters(fs.config)) =>
          /\ last'.res = "Ok"
          /\ fs'.config = fs.config /\ fs'.fat_boot_block = fs.fat_boot_block
          /\ Len(fs'.fat_files) = Len(fs.fat_files)
          /\ \A i \in 1..Len(fs.fat_files) :
                /\ fs'.fat_files[i].name = fs.fat_files[i].name
                /\ fs'.fat_files[i].kind = fs.fat_files[i].kind
                /\ Len(fs'.fat_files[i].data) = Len(fs.fat_files[i].data)
                /\ fs'.fat_files[i].data # fs.fat_files[i].data =>
                      /\ fs.fat_files[i].kind = "Write"
                      /\ \E ik \in ChunksAt(fs, last'.lba) :
                            /\ ik[1] = i
                            /\ \A j \in 1..Len(fs.fat_files[i].data) :
                                  fs'.fat_files[i].data[j] # fs.fat_files[i].data[j]
                                      => InChunk(fs.fat_files[i], fs.config.block_size, ik[2], j)]_vars

\* a write to the short last chunk of the second, Write-backed file changed
\* that file and left the first file as constructed
C20_Witness ==
    /\ last.op = "write"
    /\ Len(fs.fat_files) = 2
    /\ \E ik \in ChunksAt(fs, last.lba) :
          /\ ik[1] = 2 /\ ik[2] >= 1
          /\ fs.fat_files[2].kind = "Write"
          /\ (ik[2] + 1) * fs.config.block_size > Len(fs.fat_files[2].data)
    /\ fs.fat_files[2] # files0[2]
    /\ fs.fat_files[1] = files0[1]

\* the extension of a name with a '.': what lies between its first '.' and
\* the next one, or the end of the name
ExtOf(n) ==
    LET d    == FirstDot(n)
        rest == {e \in Dots(n) : e > d}
        to   == IF rest = {} THEN Len(n) ELSE (CHOOSE e \in rest : \A x \in rest : e <= x) - 1
    IN  SubSeq(n, d + 1, to)

\* C21 - 8.3 shape of short names: a name that short_name() accepts has a
\* base of at most 8 bytes and an extension of at most 3 bytes; the 11 bytes
\* returned hold the base, space-padded, in bytes 0..8 and nothing but the
\* extension's bytes and spaces in bytes 8..11.
C21_EightDotThree ==
    (last.op = "short_name" /\ last.res = "Ok") =>
        LET n      == files0[1].name
            prefix == SubSeq(n, 1, FirstDot(n) - 1)
            ext    == ExtOf(n)
        IN  /\ Len(prefix) <= 8
            /\ Len(ext) <= 3
            /\ \A i \in 1..8 :
                  last.block[i] = IF i <= Len(prefix) THEN prefix[i] ELSE 32
            /\ \A i \in 9..11 :
                  last.block[i] = 32 \/ \E k \in 1..Len(ext) : last.block[i] = ext[k]

====
